---- MODULE Spec2Model ----
(***************************************************************************)
(* The protocol bridge of the Deno language server (class Connection):     *)
(* the project-loading flag and its notifications, the debounced           *)
(* diagnostics timer, the project gatekeeper and the request handlers.     *)
(*                                                                         *)
(* JavaScript runs each handler to completion, so one action is one        *)
(* handler invocation.  The one place where handlers nest is the engine    *)
(* call openClientFile inside onDidOpenTextDocument: the engine delivers   *)
(* its project events synchronously from inside that call, so the model    *)
(* splits onDidOpenTextDocument at the call (pc = "opening").              *)
(*                                                                         *)
(* The editor extension (activate, src/src/extension.ts) is modelled next  *)
(* to the bridge: an async function, split at its awaits, and the          *)
(* listeners it registers.                                                 *)
(***************************************************************************)
EXTENDS Integers, Sequences, FiniteSets, TLC

VARIABLES
    isProjectLoading,       \* Connection.isProjectLoading
    diagnosticsTimeout,     \* Connection.diagnosticsTimeout: NoTimer or a timer id
    timerQueue,             \* the timers Node holds: set, not cleared, not fired
    languageServiceEnabled, \* project.languageServiceEnabled, per project
    scriptInfos,            \* the files the engine holds a ScriptInfo for
    pc,                     \* "idle", or "opening": inside openClientFile
    opening,                \* the file path onDidOpenTextDocument is opening
    nStart,                 \* projectLoading/start notifications sent so far
    nFinish,                \* projectLoading/finish notifications sent so far
    cycles,                 \* ProjectLoadingStart events handled while the flag was false
    lastLoading,            \* the loading notification sent last
    requested,              \* the openFiles of the triggerDiagnostics call no pass has followed
    elapsed,                \* time since the last triggerDiagnostics call, capped at delay
    cancelled,              \* the ids of the pending timers clearTimeout was called on
    last,                   \* what the step taken last did
    activation,             \* where activate() is: not called, at an await, ended
    listeners,              \* the listeners activate() has registered
    denoStatus,             \* activate's `let denoStatus`
    versions,               \* activate's `const versions`
    statusBarItem,          \* activate's `const statusBarItem`
    configuration,          \* the "deno" section of the workspace configuration
    activeTextEditor        \* window.activeTextEditor: the language of its document

vars == <<isProjectLoading, diagnosticsTimeout, timerQueue, languageServiceEnabled, scriptInfos, pc, opening, nStart, nFinish,
          cycles, lastLoading, requested, elapsed, cancelled, last,
          activation, listeners, denoStatus, versions, statusBarItem, configuration,
          activeTextEditor>>

timerVars == <<diagnosticsTimeout, timerQueue, requested, elapsed, cancelled>>
loadVars  == <<isProjectLoading, nStart, nFinish, cycles, lastLoading>>
bridgeVars == <<isProjectLoading, diagnosticsTimeout, timerQueue, languageServiceEnabled,
                scriptInfos, pc, opening, nStart, nFinish, cycles, lastLoading, requested,
                elapsed, cancelled>>
extensionVars == <<activation, listeners, denoStatus, versions, statusBarItem,
                   configuration, activeTextEditor>>

(***************************************************************************)
(* Bounds of the model.                                                    *)
(***************************************************************************)
MaxStarts == 2      \* ProjectLoadingStart events the engine delivers
MaxOpenFiles == 2   \* length of an openFiles list
MaxDefinitions == 2 \* defining locations in one engine answer
MaxEntries == 2     \* completion entries in one engine answer
LineLength == 4     \* characters of a line of text, its line break included

(***************************************************************************)
(* Program constants.                                                      *)
(***************************************************************************)
delay == 200
NoTimer == 0
DENO_MOD == "mod.ts"
LanguageTsIds == {"javascript", "javascriptreact", "typescript", "typescriptreact"}
EMPTY_RANGE == [start |-> [line |-> 0, character |-> 0],
                end   |-> [line |-> 0, character |-> 0]]

(***************************************************************************)
(* The world of the model: two projects with one source file each, and a   *)
(* file the engine never holds a ScriptInfo for.  p1 is a Deno project     *)
(* (its graph holds mod.ts), p2 is not.                                    *)
(***************************************************************************)
Projects == {"p1", "p2"}
Files == {"a.ts", "b.ts"}
ForeignFile == "style.css"
projectFiles == [p \in Projects |-> IF p = "p1" THEN {"a.ts", DENO_MOD} ELSE {"b.ts"}]
NoProject == "none"
DefaultProject(f) ==
    IF \E p \in Projects : f \in projectFiles[p]
    THEN CHOOSE p \in Projects : f \in projectFiles[p]
    ELSE NoProject

\* What a call throws when it fails: each call has an error of its own.
\* Console logging is not part of the model.
NoError == "none"
ErrorOf(call) == call
NoFault == "none"
Thrown(at) == IF at = NoFault THEN NoError ELSE ErrorOf(at)

RECURSIVE SeqsUpTo(_, _)
SeqsUpTo(S, n) ==
    IF n = 0 THEN {<<>>}
    ELSE LET shorter == SeqsUpTo(S, n - 1)
         IN  shorter \cup {Append(s, x) : s \in {t \in shorter : Len(t) = n - 1}, x \in S}

Range(s) == {s[i] : i \in 1..Len(s)}
Last(s) == s[Len(s)]
NoDup(s) == \A i, j \in 1..Len(s) : s[i] = s[j] => i = j
MapSeq(s, F(_)) == [i \in 1..Len(s) |-> F(s[i])]
OpenFilesLists == {s \in SeqsUpTo(Files, MaxOpenFiles) : NoDup(s)}

(***************************************************************************)
(* URIs and paths (./utils).                                               *)
(***************************************************************************)
filePathToUri(filePath) == [scheme |-> "file", path |-> filePath]
uriToFilePath(uri) == IF uri.scheme = "file" THEN uri.path ELSE ""
Uris == {filePathToUri(f) : f \in Files} \cup {[scheme |-> "untitled", path |-> "a.ts"]}

(***************************************************************************)
(* Notifications, and the record of a step.                                *)
(***************************************************************************)
StartNotification  == [method |-> "projectLoading/start"]
FinishNotification == [method |-> "projectLoading/finish"]
IsLoadingNote(n) == n.method \in {"projectLoading/start", "projectLoading/finish"}
CountOf(emitted, m) == Cardinality({i \in 1..Len(emitted) : emitted[i].method = m})
LoadingNotes(emitted) == SelectSeq(emitted, IsLoadingNote)

\* The counters of the notification stream after `emitted` was sent.
Sent(emitted) ==
    /\ nStart' = nStart + CountOf(emitted, "projectLoading/start")
    /\ nFinish' = nFinish + CountOf(emitted, "projectLoading/finish")
    /\ lastLoading' = IF LoadingNotes(emitted) = <<>> THEN lastLoading
                      ELSE LoadingNotes(emitted)[Len(LoadingNotes(emitted))].method

NoInput == "none"
NoResult == [defined |-> FALSE, items |-> <<>>]
Result(items) == [defined |-> TRUE, items |-> items]
\* op: the handler; file: its file or project; emitted: the notifications it
\* sent; calls: the engine calls it made; result: what it returned; raised:
\* the error that left it; input: what the engine answered or threw.
Ran(op, file, emitted, calls, result, raised, input) ==
    [op |-> op, file |-> file, emitted |-> emitted, calls |-> calls,
     result |-> result, raised |-> raised, input |-> input]

(***************************************************************************)
(* Node timers and triggerDiagnostics.                                     *)
(***************************************************************************)
\* A timer's id names it among the timers Node holds; setTimeout returns the
\* least id none of them has.
TimerIds(queue) == {t.id : t \in queue}
FreshTimerId(queue) ==
    CHOOSE i \in 1..(Cardinality(queue) + 1) :
        /\ i \notin TimerIds(queue)
        /\ \A j \in 1..(i - 1) : j \in TimerIds(queue)
\* Faulty variants: a clearTimeout that cancels nothing, and a
\* triggerDiagnostics that does not cancel the timer it replaces.
clearTimeoutIgnored(queue, id) == queue
TimersAfterTriggerKept(queue, handle, id, openFiles) ==
    queue \cup {[id |-> id, openFiles |-> openFiles, remaining |-> delay]}

\* Faulty variant: the timer is due at once, whatever the delay asked.
setTimeoutDue(queue, id, openFiles, ms) ==
    queue \cup {[id |-> id, openFiles |-> openFiles, remaining |-> 0]}

clearTimeout(queue, id) == {t \in queue : t.id # id}
setTimeout(queue, id, openFiles, ms) ==
    queue \cup {[id |-> id, openFiles |-> openFiles, remaining |-> ms]}

\* The timers Node holds after triggerDiagnostics(openFiles).
TimersAfterTrigger(queue, handle, id, openFiles) ==
    setTimeout(IF handle # NoTimer THEN clearTimeout(queue, handle) ELSE queue,
               id, openFiles, delay)

\* Faulty variant: a call that finds a timer pending leaves it and sets none.
triggerDiagnosticsIfIdle(openFiles) ==
    IF diagnosticsTimeout # NoTimer
    THEN UNCHANGED timerVars
    ELSE /\ timerQueue' = TimersAfterTrigger(timerQueue, diagnosticsTimeout,
                                             FreshTimerId(timerQueue), openFiles)
         /\ diagnosticsTimeout' = FreshTimerId(timerQueue)
         /\ cancelled' = cancelled
         /\ requested' = Result(openFiles)
         /\ elapsed' = 0

triggerDiagnostics(openFiles) ==
    /\ timerQueue' = TimersAfterTrigger(timerQueue, diagnosticsTimeout,
                                        FreshTimerId(timerQueue), openFiles)
    /\ diagnosticsTimeout' = FreshTimerId(timerQueue)
    /\ cancelled' = (cancelled \cup ({diagnosticsTimeout} \ {NoTimer}))
                        \cap (TimerIds(timerQueue') \ {FreshTimerId(timerQueue)})
    /\ requested' = Result(openFiles)
    /\ elapsed' = 0

(***************************************************************************)
(* The project gatekeeper.                                                 *)
(***************************************************************************)
isDenoProject(graph, name) == name \in graph

\* Faulty variant: the test of the marker file is inverted.
checkIsDenoProjectInverted(enabled, graph, fault) ==
    IF ~enabled
    THEN [enabled |-> enabled, calls |-> <<>>, raised |-> NoError]
    ELSE IF fault = "isDenoProject"
    THEN [enabled |-> enabled, calls |-> <<"isDenoProject">>, raised |-> ErrorOf(fault)]
    ELSE IF isDenoProject(graph, DENO_MOD)
    THEN IF fault = "disableLanguageService"
         THEN [enabled |-> enabled,
               calls |-> <<"isDenoProject", "disableLanguageService">>,
               raised |-> ErrorOf(fault)]
         ELSE [enabled |-> FALSE,
               calls |-> <<"isDenoProject", "disableLanguageService">>,
               raised |-> NoError]
    ELSE [enabled |-> enabled, calls |-> <<"isDenoProject">>, raised |-> NoError]

\* Faulty variants: a check that does not stop at a project already
\* disabled, and one that enables such a project again.
checkIsDenoProjectRepeating(enabled, graph, fault) ==
    IF fault = "isDenoProject"
    THEN [enabled |-> enabled, calls |-> <<"isDenoProject">>, raised |-> ErrorOf(fault)]
    ELSE IF ~isDenoProject(graph, DENO_MOD)
    THEN IF fault = "disableLanguageService"
         THEN [enabled |-> enabled,
               calls |-> <<"isDenoProject", "disableLanguageService">>,
               raised |-> ErrorOf(fault)]
         ELSE [enabled |-> FALSE,
               calls |-> <<"isDenoProject", "disableLanguageService">>,
               raised |-> NoError]
    ELSE [enabled |-> enabled, calls |-> <<"isDenoProject">>, raised |-> NoError]
checkIsDenoProjectReenabling(enabled, graph, fault) ==
    IF ~enabled
    THEN [enabled |-> TRUE, calls |-> <<>>, raised |-> NoError]
    ELSE IF fault = "isDenoProject"
    THEN [enabled |-> enabled, calls |-> <<"isDenoProject">>, raised |-> ErrorOf(fault)]
    ELSE IF ~isDenoProject(graph, DENO_MOD)
    THEN IF fault = "disableLanguageService"
         THEN [enabled |-> enabled,
               calls |-> <<"isDenoProject", "disableLanguageService">>,
               raised |-> ErrorOf(fault)]
         ELSE [enabled |-> FALSE,
               calls |-> <<"isDenoProject", "disableLanguageService">>,
               raised |-> NoError]
    ELSE [enabled |-> enabled, calls |-> <<"isDenoProject">>, raised |-> NoError]

\* fault: the call that throws, if one does.
GateFaults == {NoFault, "isDenoProject", "disableLanguageService"}

checkIsDenoProject(enabled, graph, fault) ==
    IF ~enabled
    THEN [enabled |-> enabled, calls |-> <<>>, raised |-> NoError]
    ELSE IF fault = "isDenoProject"
    THEN [enabled |-> enabled, calls |-> <<"isDenoProject">>, raised |-> ErrorOf(fault)]
    ELSE IF ~isDenoProject(graph, DENO_MOD)
    THEN IF fault = "disableLanguageService"
         THEN [enabled |-> enabled,
               calls |-> <<"isDenoProject", "disableLanguageService">>,
               raised |-> ErrorOf(fault)]
         ELSE [enabled |-> FALSE,
               calls |-> <<"isDenoProject", "disableLanguageService">>,
               raised |-> NoError]
    ELSE [enabled |-> enabled, calls |-> <<"isDenoProject">>, raised |-> NoError]

(***************************************************************************)
(* handleProjectServiceEvent.                                              *)
(***************************************************************************)
\* Faulty variants of the two cleanups, which the properties must tell from
\* the code: a finally block that sends without testing the flag, one that
\* is skipped when the try block threw, a catch block that resets the flag
\* and sends nothing, and one that does not raise the error again.
FinishCleanupUntested(loading, raised) ==
    [isProjectLoading |-> FALSE, emitted |-> <<FinishNotification>>]
FinishCleanupSkipped(loading, raised) ==
    IF loading /\ raised = NoError
    THEN [isProjectLoading |-> FALSE, emitted |-> <<FinishNotification>>]
    ELSE [isProjectLoading |-> loading, emitted |-> <<>>]
OpenCatchSilent(loading, error) ==
    [isProjectLoading |-> FALSE, emitted |-> <<>>, raised |-> error]
OpenCatchSwallowing(loading, error) ==
    [isProjectLoading |-> IF loading THEN FALSE ELSE loading,
     emitted |-> IF loading THEN <<FinishNotification>> ELSE <<>>,
     raised |-> NoError]

\* Faulty variant: a catch block that sends the notification without
\* testing the flag.
OpenCatchUntested(loading, error) ==
    [isProjectLoading |-> FALSE, emitted |-> <<FinishNotification>>, raised |-> error]

\* Faulty variant: a finally block that sends the notification and leaves
\* the flag as it is.
FinishCleanupKeepingFlag(loading, raised) ==
    IF loading
    THEN [isProjectLoading |-> loading, emitted |-> <<FinishNotification>>]
    ELSE [isProjectLoading |-> loading, emitted |-> <<>>]

\* The finally block of the ProjectLoadingFinishEvent case; `raised` is what
\* the try block threw.
FinishCleanup(loading, raised) ==
    IF loading
    THEN [isProjectLoading |-> FALSE, emitted |-> <<FinishNotification>>]
    ELSE [isProjectLoading |-> loading, emitted |-> <<>>]

\* The catch block of onDidOpenTextDocument; the errors the engine throws
\* are Error objects.
OpenCatch(loading, error) ==
    [isProjectLoading |-> IF loading THEN FALSE ELSE loading,
     emitted |-> IF loading THEN <<FinishNotification>> ELSE <<>>,
     raised |-> error]

ProjectLoadingStartEvent ==
    /\ nStart < MaxStarts
    /\ isProjectLoading' = TRUE
    /\ Sent(<<StartNotification>>)
    /\ cycles' = IF isProjectLoading THEN cycles ELSE cycles + 1
    /\ last' = Ran("ProjectLoadingStart", "", <<StartNotification>>, <<>>, NoResult,
                   NoError, NoInput)
    /\ UNCHANGED <<timerVars, languageServiceEnabled, scriptInfos, pc, opening>>
    /\ UNCHANGED extensionVars

\* The gatekeeper's exception leaves the event handler; when the event was
\* delivered from inside openClientFile it unwinds into the catch block of
\* onDidOpenTextDocument, which ends that handler too.
ProjectLoadingFinishEvent(project, fault) ==
    LET gate == checkIsDenoProject(languageServiceEnabled[project],
                                   projectFiles[project], fault)
        fin == FinishCleanup(isProjectLoading, gate.raised)
        unwinds == gate.raised # NoError /\ pc = "opening"
        catch == OpenCatch(fin.isProjectLoading, gate.raised)
        emitted == IF unwinds THEN fin.emitted \o catch.emitted ELSE fin.emitted
    IN  /\ fault # NoFault => (gate.calls # <<>> /\ Last(gate.calls) = fault)
        /\ languageServiceEnabled' = [languageServiceEnabled EXCEPT ![project] = gate.enabled]
        /\ isProjectLoading' = IF unwinds THEN catch.isProjectLoading ELSE fin.isProjectLoading
        /\ Sent(emitted)
        /\ pc' = IF unwinds THEN "idle" ELSE pc
        /\ opening' = IF unwinds THEN "" ELSE opening
        /\ last' = Ran("ProjectLoadingFinish", project, emitted,
                       gate.calls, NoResult,
                       IF unwinds THEN catch.raised ELSE gate.raised, Thrown(fault))
        /\ UNCHANGED <<timerVars, scriptInfos, cycles>>
        /\ UNCHANGED extensionVars

\* Faulty variant: the event also ends the load in progress.
ProjectsUpdatedInBackgroundEventEndingLoad(openFiles) ==
    /\ Range(openFiles) = scriptInfos
    /\ triggerDiagnostics(openFiles)
    /\ isProjectLoading' = FALSE
    /\ Sent(IF isProjectLoading THEN <<FinishNotification>> ELSE <<>>)
    /\ last' = Ran("ProjectsUpdatedInBackground", "",
                   IF isProjectLoading THEN <<FinishNotification>> ELSE <<>>,
                   <<>>, NoResult, NoError, NoInput)
    /\ UNCHANGED <<cycles, languageServiceEnabled, scriptInfos, pc, opening>>
    /\ UNCHANGED extensionVars

\* The engine reports the files it holds open.
ProjectsUpdatedInBackgroundEvent(openFiles) ==
    /\ Range(openFiles) = scriptInfos
    /\ triggerDiagnostics(openFiles)
    /\ last' = Ran("ProjectsUpdatedInBackground", "", <<>>, <<>>, NoResult, NoError,
                   NoInput)
    /\ UNCHANGED <<loadVars, languageServiceEnabled, scriptInfos, pc, opening>>
    /\ UNCHANGED extensionVars

(***************************************************************************)
(* Positions, spans and ranges (./utils).                                  *)
(***************************************************************************)
Positions == {[line |-> 1, character |-> 2]}
lspPositionToTsPosition(scriptInfo, position) ==
    position.line * LineLength + position.character
tsPositionToLspPosition(scriptInfo, offset) ==
    [line |-> offset \div LineLength, character |-> offset % LineLength]
tsTextSpanToLspRange(scriptInfo, textSpan) ==
    [start |-> tsPositionToLspPosition(scriptInfo, textSpan.start),
     end   |-> tsPositionToLspPosition(scriptInfo, textSpan.start + textSpan.length)]

(***************************************************************************)
(* The engine's lookups.                                                   *)
(***************************************************************************)
getScriptInfo(infos, fileName) == fileName \in infos
\* The language service of the file's project: none when the project's
\* language service is disabled.
getDefaultLanguageService(enabled, fileName) ==
    /\ DefaultProject(fileName) # NoProject
    /\ enabled[DefaultProject(fileName)]

(***************************************************************************)
(* sendPendingDiagnostics and the timer's callback.                        *)
(***************************************************************************)
EngineDiagnostics ==
    {<<>>, <<[category |-> "error", code |-> 2304, start |-> 5, length |-> 2]>>}
Severity(category) ==
    CASE category = "error" -> "Error"
      [] category = "warning" -> "Warning"
      [] OTHER -> "Hint"
tsDiagnosticToLspDiagnostic(d, scriptInfo) ==
    [severity |-> Severity(d.category), code |-> d.code,
     range |-> tsTextSpanToLspRange(scriptInfo, [start |-> d.start, length |-> d.length])]

\* Faulty variant: no notification for a file without diagnostics.
DiagnosticsOfFindings(fileName, infos, enabled, diagnostics) ==
    IF ~(fileName \in infos) \/ diagnostics = <<>> THEN <<>>
    ELSE IF DefaultProject(fileName) = NoProject THEN <<>>
    ELSE IF ~enabled[DefaultProject(fileName)] THEN <<>>
    ELSE <<[method |-> "textDocument/publishDiagnostics",
            uri |-> [scheme |-> "file", path |-> fileName],
            diagnostics |-> diagnostics]>>

\* The notification of one file of the pass: none when the file has no
\* ScriptInfo or no language service.
DiagnosticsOf(fileName, infos, enabled, diagnostics) ==
    IF ~getScriptInfo(infos, fileName) THEN <<>>
    ELSE IF ~getDefaultLanguageService(enabled, fileName) THEN <<>>
    ELSE <<[method |-> "textDocument/publishDiagnostics",
            uri |-> filePathToUri(fileName),
            diagnostics |-> MapSeq(diagnostics,
                                   LAMBDA d : tsDiagnosticToLspDiagnostic(d, fileName))]>>

\* Faulty variant: the pass stops at the first file it cannot serve.
RECURSIVE sendPendingDiagnosticsBreaking(_, _, _, _)
sendPendingDiagnosticsBreaking(openFiles, infos, enabled, semantic) ==
    IF openFiles = <<>> THEN <<>>
    ELSE IF DiagnosticsOf(Head(openFiles), infos, enabled, semantic[Head(openFiles)]) = <<>>
    THEN <<>>
    ELSE DiagnosticsOf(Head(openFiles), infos, enabled, semantic[Head(openFiles)])
         \o sendPendingDiagnosticsBreaking(Tail(openFiles), infos, enabled, semantic)

\* The notifications of the pass, in the order sent; semantic[f] is what
\* getSemanticDiagnostics answers for f.
RECURSIVE sendPendingDiagnostics(_, _, _, _)
sendPendingDiagnostics(openFiles, infos, enabled, semantic) ==
    IF openFiles = <<>> THEN <<>>
    ELSE DiagnosticsOf(Head(openFiles), infos, enabled, semantic[Head(openFiles)])
         \o sendPendingDiagnostics(Tail(openFiles), infos, enabled, semantic)

\* The files of a pass, what getSemanticDiagnostics holds for each, and the
\* timer whose callback made the pass.
PassInput(openFiles, semantic, timer) ==
    [openFiles |-> openFiles, answers |-> MapSeq(openFiles, LAMBDA f : semantic[f]),
     timer |-> timer]

\* One pass over the files of openFiles, as the timer's callback makes it.
SendPendingDiagnostics(openFiles, semantic) ==
    /\ pc = "idle"
    /\ last' = Ran("sendPendingDiagnostics", "",
                   sendPendingDiagnostics(openFiles, scriptInfos, languageServiceEnabled,
                                          semantic),
                   <<>>, NoResult, NoError, PassInput(openFiles, semantic, NoTimer))
    /\ UNCHANGED <<timerVars, loadVars, languageServiceEnabled, scriptInfos, pc, opening>>
    /\ UNCHANGED extensionVars

\* Faulty variant: the callback makes the pass without clearing
\* diagnosticsTimeout.
TimerFiresKeepingHandle(t, semantic) ==
    /\ pc = "idle"
    /\ t \in timerQueue
    /\ t.remaining = 0
    /\ timerQueue' = timerQueue \ {t}
    /\ cancelled' = cancelled \ {t.id}
    /\ requested' = NoResult
    /\ last' = Ran("diagnosticsTimeout", "",
                   sendPendingDiagnostics(t.openFiles, scriptInfos, languageServiceEnabled,
                                          semantic),
                   <<>>, NoResult, NoError, PassInput(t.openFiles, semantic, t.id))
    /\ UNCHANGED <<diagnosticsTimeout, elapsed, loadVars, languageServiceEnabled,
                   scriptInfos, pc, opening>>
    /\ UNCHANGED extensionVars

\* The callback of the timer triggerDiagnostics set.
TimerFires(t, semantic) ==
    /\ pc = "idle"
    /\ t \in timerQueue
    /\ t.remaining = 0
    /\ timerQueue' = timerQueue \ {t}
    /\ diagnosticsTimeout' = NoTimer
    /\ cancelled' = cancelled \ {t.id}
    /\ requested' = NoResult
    /\ last' = Ran("diagnosticsTimeout", "",
                   sendPendingDiagnostics(t.openFiles, scriptInfos, languageServiceEnabled,
                                          semantic),
                   <<>>, NoResult, NoError, PassInput(t.openFiles, semantic, t.id))
    /\ UNCHANGED <<elapsed, loadVars, languageServiceEnabled, scriptInfos, pc, opening>>
    /\ UNCHANGED extensionVars

\* dt milliseconds pass.
TickSteps == {delay \div 2, delay}
Tick(dt) ==
    /\ \/ \E t \in timerQueue : t.remaining > 0
       \/ elapsed < delay
    /\ timerQueue' = {[t EXCEPT !.remaining = IF t.remaining > dt THEN t.remaining - dt ELSE 0] :
                        t \in timerQueue}
    /\ elapsed' = IF elapsed + dt < delay THEN elapsed + dt ELSE delay
    /\ last' = Ran("tick", "", <<>>, <<>>, NoResult, NoError, NoInput)
    /\ UNCHANGED <<diagnosticsTimeout, requested, cancelled, loadVars,
                   languageServiceEnabled, scriptInfos, pc, opening>>
    /\ UNCHANGED extensionVars

(***************************************************************************)
(* onDidOpenTextDocument.                                                  *)
(***************************************************************************)
LanguageIds == {"typescript", "css"}
ScriptKind(languageId) == IF languageId \in LanguageTsIds THEN "TS" ELSE "External"

\* Up to the call of openClientFile, which starts by creating the ScriptInfo.
OnDidOpenTextDocument(uri, languageId) ==
    /\ pc = "idle"
    /\ IF uriToFilePath(uri) = ""
       THEN /\ last' = Ran("onDidOpenTextDocument", "", <<>>, <<>>, NoResult, NoError,
                           NoInput)
            /\ UNCHANGED <<pc, opening, scriptInfos>>
       ELSE /\ pc' = "opening"
            /\ opening' = uriToFilePath(uri)
            /\ scriptInfos' = scriptInfos \cup {uriToFilePath(uri)}
            /\ last' = Ran("openClientFile", uriToFilePath(uri), <<>>,
                           <<"openClientFile", ScriptKind(languageId)>>, NoResult, NoError,
                           NoInput)
    /\ UNCHANGED <<loadVars, timerVars, languageServiceEnabled>>
    /\ UNCHANGED extensionVars

\* openClientFile throws.
OpenClientFileThrows ==
    /\ pc = "opening"
    /\ LET catch == OpenCatch(isProjectLoading, ErrorOf("openClientFile"))
       IN  /\ isProjectLoading' = catch.isProjectLoading
           /\ Sent(catch.emitted)
           /\ last' = Ran("onDidOpenTextDocument", opening, catch.emitted, <<>>, NoResult,
                          catch.raised, ErrorOf("openClientFile"))
    /\ pc' = "idle"
    /\ opening' = ""
    /\ UNCHANGED <<cycles, timerVars, languageServiceEnabled, scriptInfos>>
    /\ UNCHANGED extensionVars

\* What openClientFile answers, whether findProject finds the project, and
\* the call of the rest of the try block that throws err, if one does.
OpenAnswers ==
    [configFileName : Projects \cup {NoProject}, configFileErrors : BOOLEAN,
     found : BOOLEAN, fault : {NoFault, "findProject", "refreshDiagnostics"}]

\* Faulty variant: errors in the configuration file end the handler like a
\* missing configuration file.
OpenOutcomeStrict(answer, enabled) ==
    IF answer.configFileName = NoProject \/ answer.configFileErrors THEN "no config"
    ELSE IF answer.fault = "findProject" THEN "throw"
    ELSE IF ~answer.found THEN "no project"
    ELSE IF ~enabled[answer.configFileName] THEN "disabled"
    ELSE IF answer.fault = "refreshDiagnostics" THEN "throw"
    ELSE "refresh"

\* The path the rest of the try block takes: "no config", "no project",
\* "disabled", "refresh" or "throw".
OpenOutcome(answer, enabled) ==
    IF answer.configFileName = NoProject THEN "no config"
    ELSE IF answer.fault = "findProject" THEN "throw"
    ELSE IF ~answer.found THEN "no project"
    ELSE IF ~enabled[answer.configFileName] THEN "disabled"
    ELSE IF answer.fault = "refreshDiagnostics" THEN "throw"
    ELSE "refresh"

OpenCalls(outcome, fault) ==
    CASE outcome = "no config" -> <<>>
      [] outcome = "no project" -> <<"findProject">>
      [] outcome = "disabled" -> <<"findProject">>
      [] outcome = "refresh" -> <<"findProject", "refreshDiagnostics">>
      [] outcome = "throw" -> IF fault = "findProject" THEN <<"findProject">>
                              ELSE <<"findProject", "refreshDiagnostics">>

\* openClientFile returns; refreshDiagnostics makes the engine deliver
\* ProjectsUpdatedInBackground with the files it holds open.
OpenClientFileReturns(answer, openFiles) ==
    /\ pc = "opening"
    /\ LET outcome == OpenOutcome(answer, languageServiceEnabled)
           catch == OpenCatch(isProjectLoading, Thrown(answer.fault))
       IN  /\ answer.fault # NoFault => outcome = "throw"
           /\ IF outcome = "refresh"
              THEN /\ Range(openFiles) = scriptInfos
                   /\ triggerDiagnostics(openFiles)
              ELSE /\ openFiles = <<>>
                   /\ UNCHANGED timerVars
           /\ IF outcome = "throw"
              THEN /\ isProjectLoading' = catch.isProjectLoading
                   /\ Sent(catch.emitted)
                   /\ last' = Ran("onDidOpenTextDocument", opening, catch.emitted,
                                  OpenCalls(outcome, answer.fault), NoResult, catch.raised,
                                  Thrown(answer.fault))
              ELSE /\ UNCHANGED <<isProjectLoading, nStart, nFinish, lastLoading>>
                   /\ last' = Ran("onDidOpenTextDocument", opening, <<>>,
                                  OpenCalls(outcome, answer.fault), NoResult, NoError,
                                  NoInput)
    /\ pc' = "idle"
    /\ opening' = ""
    /\ UNCHANGED <<cycles, languageServiceEnabled, scriptInfos>>
    /\ UNCHANGED extensionVars

(***************************************************************************)
(* onDidCloseTextDocument, onDidSaveTextDocument.                          *)
(***************************************************************************)
\* Faulty variant: closing a document cancels the pending timer.
OnDidCloseTextDocumentCancelling(uri) ==
    /\ pc = "idle"
    /\ IF uriToFilePath(uri) = ""
       THEN /\ last' = Ran("onDidCloseTextDocument", "", <<>>, <<>>, NoResult, NoError,
                           NoInput)
            /\ UNCHANGED scriptInfos
       ELSE /\ scriptInfos' = scriptInfos \ {uriToFilePath(uri)}
            /\ last' = Ran("onDidCloseTextDocument", uriToFilePath(uri), <<>>,
                           <<"closeClientFile">>, NoResult, NoError, NoInput)
    /\ timerQueue' = clearTimeout(timerQueue, diagnosticsTimeout)
    /\ diagnosticsTimeout' = NoTimer
    /\ requested' = NoResult
    /\ UNCHANGED <<elapsed, cancelled, loadVars, languageServiceEnabled, pc, opening>>
    /\ UNCHANGED extensionVars

OnDidCloseTextDocument(uri) ==
    /\ pc = "idle"
    /\ IF uriToFilePath(uri) = ""
       THEN /\ last' = Ran("onDidCloseTextDocument", "", <<>>, <<>>, NoResult, NoError,
                           NoInput)
            /\ UNCHANGED scriptInfos
       ELSE /\ scriptInfos' = scriptInfos \ {uriToFilePath(uri)}
            /\ last' = Ran("onDidCloseTextDocument", uriToFilePath(uri), <<>>,
                           <<"closeClientFile">>, NoResult, NoError, NoInput)
    /\ UNCHANGED <<loadVars, timerVars, languageServiceEnabled, pc, opening>>
    /\ UNCHANGED extensionVars

\* text: "absent" when the request carries none, else the text ("" included).
NoText == "absent"
Texts == {NoText, "", "x"}
Truthy(text) == text # NoText /\ text # ""
OnDidSaveTextDocument(uri, text) ==
    /\ pc = "idle"
    /\ last' = Ran("onDidSaveTextDocument", uriToFilePath(uri), <<>>,
                   IF ~getScriptInfo(scriptInfos, uriToFilePath(uri)) THEN <<>>
                   ELSE IF Truthy(text) THEN <<"scriptInfo.open">>
                   ELSE <<"scriptInfo.reloadFromFile">>,
                   NoResult, NoError, text)
    /\ UNCHANGED <<loadVars, timerVars, languageServiceEnabled, scriptInfos, pc, opening>>
    /\ UNCHANGED extensionVars

(***************************************************************************)
(* onDefinition.                                                           *)
(***************************************************************************)
Undefined == [defined |-> FALSE]
DefinitionInfos ==
    {[fileName |-> "a.ts", textSpan |-> [start |-> 5, length |-> 2]],
     [fileName |-> ForeignFile, textSpan |-> [start |-> 0, length |-> 0]],
     [fileName |-> ForeignFile, textSpan |-> [start |-> 5, length |-> 2]]}
\* What getDefinitionAndBoundSpan answers.
DefinitionAnswers ==
    {Undefined}
    \cup {[defined |-> TRUE, textSpan |-> [start |-> 5, length |-> 2],
           definitions |-> Undefined]}
    \cup {[defined |-> TRUE, textSpan |-> [start |-> 5, length |-> 2],
           definitions |-> [defined |-> TRUE, items |-> ds]] :
            ds \in SeqsUpTo(DefinitionInfos, MaxDefinitions)}

\* Faulty variant: no defining location is skipped.
LinkOfUnfiltered(d, infos, originSelectionRange) ==
    LET range == IF d.fileName \in infos
                 THEN tsTextSpanToLspRange(d.fileName, d.textSpan)
                 ELSE EMPTY_RANGE
    IN  <<[originSelectionRange |-> originSelectionRange,
           targetUri |-> filePathToUri(d.fileName),
           targetRange |-> range,
           targetSelectionRange |-> range]>>

\* The link of one defining location: none when it is skipped.
LinkOf(d, infos, originSelectionRange) ==
    IF ~getScriptInfo(infos, d.fileName) /\ d.textSpan.length > 0 THEN <<>>
    ELSE LET range == IF getScriptInfo(infos, d.fileName)
                      THEN tsTextSpanToLspRange(d.fileName, d.textSpan)
                      ELSE EMPTY_RANGE
         IN  <<[originSelectionRange |-> originSelectionRange,
                targetUri |-> filePathToUri(d.fileName),
                targetRange |-> range,
                targetSelectionRange |-> range]>>

RECURSIVE DefinitionLinks(_, _, _)
DefinitionLinks(definitions, infos, originSelectionRange) ==
    IF definitions = <<>> THEN <<>>
    ELSE LinkOf(Head(definitions), infos, originSelectionRange)
         \o DefinitionLinks(Tail(definitions), infos, originSelectionRange)

\* Faulty variant: the language service is asked for a file without
\* ScriptInfo too.
DefinitionUnchecked(filePath, position, infos, enabled, answer) ==
    IF ~getDefaultLanguageService(enabled, filePath)
    THEN [result |-> NoResult, calls |-> <<>>]
    ELSE IF ~answer.defined \/ ~answer.definitions.defined
    THEN [result |-> NoResult, calls |-> <<"getDefinitionAndBoundSpan">>]
    ELSE [result |-> Result(DefinitionLinks(answer.definitions.items, infos,
                                            tsTextSpanToLspRange(filePath, answer.textSpan))),
          calls |-> <<"getDefinitionAndBoundSpan">>]

\* What onDefinition returns and the engine calls it makes.
Definition(filePath, position, infos, enabled, answer) ==
    IF ~getScriptInfo(infos, filePath)
    THEN [result |-> NoResult, calls |-> <<>>]
    ELSE IF ~getDefaultLanguageService(enabled, filePath)
    THEN [result |-> NoResult, calls |-> <<>>]
    ELSE IF ~answer.defined \/ ~answer.definitions.defined
    THEN [result |-> NoResult, calls |-> <<"getDefinitionAndBoundSpan">>]
    ELSE [result |-> Result(DefinitionLinks(answer.definitions.items, infos,
                                            tsTextSpanToLspRange(filePath, answer.textSpan))),
          calls |-> <<"getDefinitionAndBoundSpan">>]

OnDefinition(uri, position, answer) ==
    /\ pc = "idle"
    /\ LET def == Definition(uriToFilePath(uri), position, scriptInfos,
                             languageServiceEnabled, answer)
       IN  last' = Ran("onDefinition", uriToFilePath(uri), <<>>, def.calls, def.result,
                       NoError, answer)
    /\ UNCHANGED <<loadVars, timerVars, languageServiceEnabled, scriptInfos, pc, opening>>
    /\ UNCHANGED extensionVars

(***************************************************************************)
(* onCompletion.                                                           *)
(***************************************************************************)
CompletionEntries ==
    {[name |-> "log", kind |-> "method", sortText |-> "0"],
     [name |-> "Deno", kind |-> "module", sortText |-> "1"]}
\* What getCompletionsAtPosition answers.
CompletionAnswers ==
    {Undefined} \cup {[defined |-> TRUE, entries |-> es] :
                        es \in SeqsUpTo(CompletionEntries, MaxEntries)}
CompletionItemKind(kind) ==
    CASE kind = "method" -> "Method"
      [] kind = "module" -> "Module"
      [] OTHER -> "Text"
tsCompletionEntryToLspCompletionItem(e, position, scriptInfo) ==
    [label |-> e.name, kind |-> CompletionItemKind(e.kind), sortText |-> e.sortText,
     insertText |-> e.name, detail |-> e.kind]

\* Faulty variant: the items are returned in the reverse of the engine's
\* order.
CompletionReversed(filePath, position, infos, enabled, answer) ==
    IF filePath = "" \/ ~(filePath \in infos) THEN [result |-> NoResult, calls |-> <<>>]
    ELSE IF DefaultProject(filePath) = NoProject THEN [result |-> NoResult, calls |-> <<>>]
    ELSE IF ~enabled[DefaultProject(filePath)] THEN [result |-> NoResult, calls |-> <<>>]
    ELSE IF ~answer.defined
    THEN [result |-> NoResult, calls |-> <<"getCompletionsAtPosition">>]
    ELSE [result |-> Result([i \in 1..Len(answer.entries) |->
                               tsCompletionEntryToLspCompletionItem(
                                   answer.entries[Len(answer.entries) + 1 - i],
                                   position, filePath)]),
          calls |-> <<"getCompletionsAtPosition">>]

\* Faulty variant: the language service is asked whether enabled or not.
CompletionUnguarded(filePath, position, infos, enabled, answer) ==
    IF filePath = "" \/ ~(filePath \in infos) THEN [result |-> NoResult, calls |-> <<>>]
    ELSE IF ~answer.defined
    THEN [result |-> NoResult, calls |-> <<"getCompletionsAtPosition">>]
    ELSE [result |-> Result(MapSeq(answer.entries,
                                   LAMBDA e : tsCompletionEntryToLspCompletionItem(
                                                  e, position, filePath))),
          calls |-> <<"getCompletionsAtPosition">>]

\* What onCompletion returns and the engine calls it makes.
Completion(filePath, position, infos, enabled, answer) ==
    IF filePath = "" THEN [result |-> NoResult, calls |-> <<>>]
    ELSE IF ~getScriptInfo(infos, filePath) THEN [result |-> NoResult, calls |-> <<>>]
    ELSE IF ~getDefaultLanguageService(enabled, filePath)
    THEN [result |-> NoResult, calls |-> <<>>]
    ELSE IF ~answer.defined
    THEN [result |-> NoResult, calls |-> <<"getCompletionsAtPosition">>]
    ELSE [result |-> Result(MapSeq(answer.entries,
                                   LAMBDA e : tsCompletionEntryToLspCompletionItem(
                                                  e, position, filePath))),
          calls |-> <<"getCompletionsAtPosition">>]

OnCompletion(uri, position, answer) ==
    /\ pc = "idle"
    /\ LET comp == Completion(uriToFilePath(uri), position, scriptInfos,
                              languageServiceEnabled, answer)
       IN  last' = Ran("onCompletion", uriToFilePath(uri), <<>>, comp.calls, comp.result,
                       NoError, answer)
    /\ UNCHANGED <<loadVars, timerVars, languageServiceEnabled, scriptInfos, pc, opening>>
    /\ UNCHANGED extensionVars

(***************************************************************************)
(* The editor extension: activate() and the listeners it registers.        *)
(***************************************************************************)
Status == {"ok", "warn", "error"}
\* A binding of activate() is uninitialized until its declaration has run;
\* `const versions` is declared with the result of `await getVersions()`.
VersionsUninitialized == [initialized |-> FALSE, defined |-> FALSE, deno |-> ""]
VersionsUndefined == [initialized |-> TRUE, defined |-> FALSE, deno |-> ""]
VersionsFound == [initialized |-> TRUE, defined |-> TRUE, deno |-> "0.2.0"]
\* What getVersions() resolves to.
GetVersionsAnswers == {VersionsUndefined, VersionsFound}
\* Reading versions.deno before the declaration has run: a ReferenceError
\* where the build keeps `const`, a TypeError on undefined where it compiles
\* it to `var`.
UninitializedReadErrors == {"ReferenceError", "TypeError"}
ReadErrors(vers) ==
    IF ~vers.initialized THEN UninitializedReadErrors
    ELSE IF ~vers.defined THEN {"TypeError"}
    ELSE {NoError}

NoStatusBarItem == [created |-> FALSE, text |-> <<>>, tooltip |-> "", shown |-> FALSE]
Configurations == [enable : BOOLEAN, alwaysShowStatus : BOOLEAN]
NoEditor == "none"
Editors == {NoEditor, "typescript", "plaintext"}
isTypeScriptDocument(document) == document = "typescript"
isJavaScriptDocument(document) == document = "javascript"

\* updateStatusBarVisibility(editor): the status bar item it leaves and the
\* error that leaves it.  `error` is what reading versions.deno throws, if
\* it throws (NoError when versions is there).
updateStatusBarVisibility(item, status, vers, config, editor, error) ==
    IF status \notin {"warn", "error"} /\ error # NoError
    THEN [item |-> item, raised |-> error]
    ELSE LET text == IF status = "warn" THEN <<"$(alert)", "Deno">>
                     ELSE IF status = "error" THEN <<"$(issue-opened)", "Deno">>
                     ELSE <<"Deno", vers.deno>>
             hide == \/ editor = NoEditor
                     \/ ~config.enable
                     \/ status = "ok" /\ ~config.alwaysShowStatus
             show == ~hide /\ (isTypeScriptDocument(editor) \/ isJavaScriptDocument(editor))
         IN  [item |-> [item EXCEPT !.text = text, !.shown = show], raised |-> NoError]

\* What a run of updateStatusBarVisibility found: the status it switched
\* on and versions as it stood.
StatusBarInput(status, vers) == [denoStatus |-> status, versions |-> vers]

\* activate() up to `await extension.activate()`; it returns at once when
\* the TypeScript extension is not installed.
Activate(found) ==
    /\ activation = "not called"
    /\ activation' = IF found THEN "awaiting extension.activate" ELSE "returned"
    /\ last' = Ran("activate", "", <<>>, <<"extensions.getExtension">>, NoResult, NoError,
                   NoInput)
    /\ UNCHANGED <<listeners, denoStatus, versions, statusBarItem, configuration,
                   activeTextEditor>>
    /\ UNCHANGED bridgeVars

\* From the first await to the second: the listener of configuration
\* changes is registered, the status bar item is created, denoStatus is
\* declared ok, and getVersions() is called and awaited.
ExtensionActivated(api) ==
    /\ activation = "awaiting extension.activate"
    /\ IF ~api
       THEN /\ activation' = "returned"
            /\ last' = Ran("activate", "", <<>>, <<>>, NoResult, NoError, NoInput)
            /\ UNCHANGED <<listeners, denoStatus, statusBarItem>>
       ELSE /\ activation' = "awaiting getVersions"
            /\ listeners' = listeners \cup {"onDidChangeConfiguration"}
            /\ statusBarItem' = [created |-> TRUE, text |-> <<"Deno">>, tooltip |-> "",
                                 shown |-> FALSE]
            /\ denoStatus' = "ok"
            /\ last' = Ran("activate", "", <<>>,
                           <<"synchronizeConfiguration", "getVersions">>, NoResult, NoError,
                           NoInput)
    /\ UNCHANGED <<versions, configuration, activeTextEditor>>
    /\ UNCHANGED bridgeVars

\* getVersions() resolves and activate() runs to its end: versions is
\* declared, the status is warn when nothing was detected, the listener of
\* editor changes is registered and updateStatusBarVisibility is called.
GetVersionsResolves(answer) ==
    /\ activation = "awaiting getVersions"
    /\ LET status == IF ~answer.defined THEN "warn" ELSE denoStatus
           tooltip == IF ~answer.defined THEN "Deno is not installed" ELSE answer.deno
       IN  \E error \in ReadErrors(answer) :
             LET update == updateStatusBarVisibility(
                               [statusBarItem EXCEPT !.tooltip = tooltip], status, answer,
                               configuration, activeTextEditor, error)
             IN  /\ versions' = answer
                 /\ denoStatus' = status
                 /\ statusBarItem' = update.item
                 /\ last' = Ran("activate", "", <<>>, <<"updateStatusBarVisibility">>,
                                NoResult, update.raised, StatusBarInput(status, answer))
    /\ listeners' = listeners \cup {"onDidChangeActiveTextEditor"}
    /\ activation' = "active"
    /\ UNCHANGED <<configuration, activeTextEditor>>
    /\ UNCHANGED bridgeVars

\* The user changes the settings; the listener, when registered, runs if
\* the change affects the "deno" section.
OnDidChangeConfiguration(config, affects) ==
    /\ ~affects => config = configuration
    /\ configuration' = config
    /\ IF affects /\ "onDidChangeConfiguration" \in listeners
       THEN \E error \in ReadErrors(versions) :
              LET update == updateStatusBarVisibility(statusBarItem, denoStatus, versions,
                                                      config, activeTextEditor, error)
              IN  /\ statusBarItem' = update.item
                  /\ last' = Ran("onDidChangeConfiguration", "", <<>>,
                                 <<"synchronizeConfiguration", "updateStatusBarVisibility">>,
                                 NoResult, update.raised,
                                 StatusBarInput(denoStatus, versions))
       ELSE /\ last' = Ran("onDidChangeConfiguration", "", <<>>, <<>>, NoResult, NoError,
                           NoInput)
            /\ UNCHANGED statusBarItem
    /\ UNCHANGED <<activation, listeners, denoStatus, versions, activeTextEditor>>
    /\ UNCHANGED bridgeVars

\* The user moves to another editor, or closes the last one.
OnDidChangeActiveTextEditor(editor) ==
    /\ editor # activeTextEditor
    /\ activeTextEditor' = editor
    /\ IF "onDidChangeActiveTextEditor" \in listeners
       THEN \E error \in ReadErrors(versions) :
              LET update == updateStatusBarVisibility(statusBarItem, denoStatus, versions,
                                                      configuration, editor, error)
              IN  /\ statusBarItem' = update.item
                  /\ last' = Ran("onDidChangeActiveTextEditor", editor, <<>>,
                                 <<"updateStatusBarVisibility">>, NoResult, update.raised,
                                 StatusBarInput(denoStatus, versions))
       ELSE /\ last' = Ran("onDidChangeActiveTextEditor", editor, <<>>, <<>>, NoResult,
                           NoError, NoInput)
            /\ UNCHANGED statusBarItem
    /\ UNCHANGED <<activation, listeners, denoStatus, versions, configuration>>
    /\ UNCHANGED bridgeVars

\* The extension before activate() is called.
InitExtension ==
    /\ activation = "not called"
    /\ listeners = {}
    /\ denoStatus = "uninitialized"
    /\ versions = VersionsUninitialized
    /\ statusBarItem = NoStatusBarItem
    /\ configuration = [enable |-> TRUE, alwaysShowStatus |-> FALSE]
    /\ activeTextEditor = NoEditor

(***************************************************************************)
(* The bridge after construction, and its steps.                           *)
(***************************************************************************)
Init ==
    /\ isProjectLoading = FALSE
    /\ diagnosticsTimeout = NoTimer
    /\ timerQueue = {}
    /\ languageServiceEnabled = [p \in Projects |-> TRUE]
    /\ scriptInfos = {}
    /\ pc = "idle"
    /\ opening = ""
    /\ nStart = 0
    /\ nFinish = 0
    /\ cycles = 0
    /\ lastLoading = "none"
    /\ requested = NoResult
    /\ elapsed = delay
    /\ cancelled = {}
    /\ last = Ran("init", "", <<>>, <<>>, NoResult, NoError, NoInput)
    /\ InitExtension

Next ==
    \/ ProjectLoadingStartEvent
    \/ \E p \in Projects, fault \in GateFaults : ProjectLoadingFinishEvent(p, fault)
    \/ \E openFiles \in OpenFilesLists : ProjectsUpdatedInBackgroundEvent(openFiles)
    \/ \E t \in timerQueue, semantic \in [Files -> EngineDiagnostics] : TimerFires(t, semantic)
    \/ \E dt \in TickSteps : Tick(dt)
    \/ \E uri \in Uris, languageId \in LanguageIds : OnDidOpenTextDocument(uri, languageId)
    \/ OpenClientFileThrows
    \/ \E answer \in OpenAnswers, openFiles \in OpenFilesLists :
          OpenClientFileReturns(answer, openFiles)
    \/ \E uri \in Uris : OnDidCloseTextDocument(uri)

Spec == Init /\ [][Next]_vars

(***************************************************************************)
(* The loading protocol alone: the engine's loading events and             *)
(* onDidOpenTextDocument.  The engine ends every load with a               *)
(* ProjectLoadingFinish event, and openClientFile ends.                    *)
(***************************************************************************)
NextLoading ==
    \/ ProjectLoadingStartEvent
    \/ \E p \in Projects, fault \in GateFaults : ProjectLoadingFinishEvent(p, fault)
    \/ \E uri \in Uris, languageId \in LanguageIds : OnDidOpenTextDocument(uri, languageId)
    \/ OpenClientFileThrows
    \/ \E answer \in OpenAnswers, openFiles \in OpenFilesLists :
          OpenClientFileReturns(answer, openFiles)

SpecLoading ==
    /\ Init
    /\ [][NextLoading]_vars
    /\ WF_vars(\E p \in Projects : ProjectLoadingFinishEvent(p, NoFault))
    /\ WF_vars(OpenClientFileThrows
               \/ \E answer \in OpenAnswers, openFiles \in OpenFilesLists :
                     OpenClientFileReturns(answer, openFiles))

(***************************************************************************)
(* The diagnostics scheduler with the handlers that feed it, no load in    *)
(* progress.  Time passes while a timer waits, Node runs the callback of a *)
(* timer that is due once the handler in progress has returned, and        *)
(* openClientFile ends.                                                    *)
(***************************************************************************)
NextDiagnostics ==
    \/ \E p \in Projects : ProjectLoadingFinishEvent(p, NoFault)
    \/ \E openFiles \in OpenFilesLists : ProjectsUpdatedInBackgroundEvent(openFiles)
    \/ \E t \in timerQueue, semantic \in [Files -> EngineDiagnostics] : TimerFires(t, semantic)
    \/ \E dt \in TickSteps : Tick(dt)
    \/ \E uri \in Uris, languageId \in LanguageIds : OnDidOpenTextDocument(uri, languageId)
    \/ OpenClientFileThrows
    \/ \E answer \in OpenAnswers, openFiles \in OpenFilesLists :
          OpenClientFileReturns(answer, openFiles)
    \/ \E uri \in Uris : OnDidCloseTextDocument(uri)

SpecDiagnostics ==
    /\ Init
    /\ [][NextDiagnostics]_vars
    /\ WF_vars(\E dt \in TickSteps : Tick(dt))
    /\ SF_vars(\E t \in timerQueue, semantic \in [Files -> EngineDiagnostics] :
                  TimerFires(t, semantic))
    /\ WF_vars(OpenClientFileThrows
               \/ \E answer \in OpenAnswers, openFiles \in OpenFilesLists :
                     OpenClientFileReturns(answer, openFiles))

(***************************************************************************)
(* The request handlers and the diagnostics pass, with any files open, on   *)
(* every answer of the engine within the bounds, before and after the      *)
(* gatekeeper's check.                                                     *)
(***************************************************************************)
InitRequests ==
    /\ isProjectLoading = FALSE
    /\ diagnosticsTimeout = NoTimer
    /\ timerQueue = {}
    /\ languageServiceEnabled = [p \in Projects |-> TRUE]
    /\ scriptInfos \in SUBSET Files
    /\ pc = "idle"
    /\ opening = ""
    /\ nStart = 0
    /\ nFinish = 0
    /\ cycles = 0
    /\ lastLoading = "none"
    /\ requested = NoResult
    /\ elapsed = delay
    /\ cancelled = {}
    /\ last = Ran("init", "", <<>>, <<>>, NoResult, NoError, NoInput)
    /\ InitExtension

NextRequests ==
    \/ \E p \in Projects, fault \in GateFaults : ProjectLoadingFinishEvent(p, fault)
    \/ \E openFiles \in SeqsUpTo(Files, MaxOpenFiles), semantic \in [Files -> EngineDiagnostics] :
          SendPendingDiagnostics(openFiles, semantic)
    \/ \E uri \in Uris, text \in Texts : OnDidSaveTextDocument(uri, text)
    \/ \E uri \in Uris, position \in Positions, answer \in DefinitionAnswers :
          OnDefinition(uri, position, answer)
    \/ \E uri \in Uris, position \in Positions, answer \in CompletionAnswers :
          OnCompletion(uri, position, answer)

SpecRequests == InitRequests /\ [][NextRequests]_vars

(***************************************************************************)
(* Every handler of the bridge together: the engine's events, the timer,   *)
(* and the requests of the editor, for the file of the project without     *)
(* mod.ts and for a document that is no file, each request on one answer   *)
(* of the engine that would give a result.  Time passes while a timer      *)
(* waits, Node runs the callback of a timer that is due once the handler   *)
(* in progress has returned, and openClientFile ends.                      *)
(***************************************************************************)
HandledUris == {uri \in Uris : uriToFilePath(uri) \in {"", "b.ts"}}
OneDefinitionAnswers ==
    {answer \in DefinitionAnswers :
        /\ answer.defined
        /\ answer.definitions.defined
        /\ answer.definitions.items = <<[fileName |-> "a.ts",
                                         textSpan |-> [start |-> 5, length |-> 2]]>>}
OneCompletionAnswers ==
    {answer \in CompletionAnswers :
        /\ answer.defined
        /\ answer.entries = <<[name |-> "log", kind |-> "method", sortText |-> "0"]>>}
NoDiagnostics == [f \in Files |-> <<>>]

NextHandlers ==
    \/ ProjectLoadingStartEvent
    \/ \E p \in Projects : ProjectLoadingFinishEvent(p, NoFault)
    \/ \E openFiles \in OpenFilesLists : ProjectsUpdatedInBackgroundEvent(openFiles)
    \/ \E t \in timerQueue : TimerFires(t, NoDiagnostics)
    \/ \E dt \in TickSteps : Tick(dt)
    \/ \E uri \in HandledUris, languageId \in LanguageIds : OnDidOpenTextDocument(uri, languageId)
    \/ OpenClientFileThrows
    \/ \E answer \in OpenAnswers, openFiles \in OpenFilesLists :
          OpenClientFileReturns(answer, openFiles)
    \/ \E uri \in HandledUris : OnDidCloseTextDocument(uri)
    \/ \E uri \in HandledUris, text \in Texts : OnDidSaveTextDocument(uri, text)
    \/ \E uri \in HandledUris, position \in Positions, answer \in OneDefinitionAnswers :
          OnDefinition(uri, position, answer)
    \/ \E uri \in HandledUris, position \in Positions, answer \in OneCompletionAnswers :
          OnCompletion(uri, position, answer)

SpecHandlers ==
    /\ Init
    /\ [][NextHandlers]_vars
    /\ WF_vars(\E dt \in TickSteps : Tick(dt))
    /\ SF_vars(\E t \in timerQueue : TimerFires(t, NoDiagnostics))
    /\ WF_vars(OpenClientFileThrows
               \/ \E answer \in OpenAnswers, openFiles \in OpenFilesLists :
                     OpenClientFileReturns(answer, openFiles))

(***************************************************************************)
(* The editor extension alone: activate() is called once, the user changes *)
(* settings and editors at any moment.                                     *)
(***************************************************************************)
NextExtension ==
    \/ \E found \in BOOLEAN : Activate(found)
    \/ \E api \in BOOLEAN : ExtensionActivated(api)
    \/ \E answer \in GetVersionsAnswers : GetVersionsResolves(answer)
    \/ \E config \in Configurations, affects \in BOOLEAN :
          OnDidChangeConfiguration(config, affects)
    \/ \E editor \in Editors : OnDidChangeActiveTextEditor(editor)

SpecExtension == Init /\ [][NextExtension]_vars

(***************************************************************************)
(* Properties of the project-loading notifications.                        *)
(***************************************************************************)
Pending == IF isProjectLoading THEN 1 ELSE 0
FinishesIn(step) == CountOf(step.emitted, "projectLoading/finish")

FinishOnlyAfterStart ==
    /\ [](nFinish <= nStart)
    /\ [][nFinish' # nFinish =>
            /\ isProjectLoading
            /\ nFinish < nStart
            /\ nFinish' = nFinish + 1]_vars

\* Both starts were matched by a finish, the second just now.
BothStartsMatched ==
    /\ FinishesIn(last) = 1
    /\ nStart = 2
    /\ nFinish = 2

\* C3: a ProjectLoadingFinish event handled while the flag is true sends
\* exactly one projectLoading/finish notification and leaves the flag false
\* by the time the handler ends, whether the gatekeeper check returned or
\* threw.
FinishEventEndsLoading ==
    [][last'.op = "ProjectLoadingFinish" /\ isProjectLoading =>
          /\ FinishesIn(last') = 1
          /\ nFinish' = nFinish + 1
          /\ ~isProjectLoading']_vars

\* The gatekeeper check threw on a ProjectLoadingFinish event outside
\* openClientFile; the notification was sent and the flag is false.
FinishSentThoughCheckThrew ==
    /\ last.op = "ProjectLoadingFinish"
    /\ last.raised = ErrorOf("disableLanguageService")
    /\ last.emitted = <<FinishNotification>>
    /\ ~isProjectLoading
    /\ pc = "idle"
    /\ nStart = 1

\* C4: when a step of the try block of onDidOpenTextDocument throws -- the
\* call of openClientFile, an event handler the engine runs inside it,
\* findProject or refreshDiagnostics -- one projectLoading/finish
\* notification is sent if the flag was true and none if it was false, the
\* flag is false when the handler ends, and the error thrown is the error
\* that leaves the handler.
OpenDocumentFailureEndsLoading ==
    [][(/\ \/ last'.op = "onDidOpenTextDocument"
           \/ last'.op = "ProjectLoadingFinish" /\ pc = "opening"
        /\ last'.input # NoError) =>
          /\ FinishesIn(last') = Pending
          /\ nFinish' = nFinish + Pending
          /\ ~isProjectLoading'
          /\ last'.raised = last'.input
          /\ pc' = "idle"]_vars

\* refreshDiagnostics threw while a load was under way: the finish was sent
\* and the error left the handler.
OpenFailedWhileLoading ==
    /\ last.op = "onDidOpenTextDocument"
    /\ last.raised = ErrorOf("refreshDiagnostics")
    /\ last.emitted = <<FinishNotification>>
    /\ ~isProjectLoading
OneTimerOutstanding ==
    /\ Cardinality(timerQueue) <= 1
    /\ TimerIds(timerQueue) = {diagnosticsTimeout} \ {NoTimer}
    /\ cancelled = {}

\* triggerDiagnostics was called while a timer was pending; only the new
\* timer is left.
TimerReplaced ==
    /\ last.op = "ProjectsUpdatedInBackground"
    /\ diagnosticsTimeout = 2
    /\ \E t \in timerQueue : t.id = 2 /\ t.remaining = delay

ServedInPass(i) ==
    /\ last.input.openFiles[i] \in scriptInfos
    /\ languageServiceEnabled[DefaultProject(last.input.openFiles[i])]
ServedUpTo(i) == Cardinality({j \in 1..i : ServedInPass(j)})

\* C7, as the specification states it: when the timer fires, every file of
\* the openFiles it was set with gets a textDocument/publishDiagnostics
\* notification.
EveryFileGetsDiagnostics ==
    last.op = "diagnosticsTimeout" =>
        \A i \in 1..Len(last.input.openFiles) :
            \E n \in 1..Len(last.emitted) :
                /\ last.emitted[n].method = "textDocument/publishDiagnostics"
                /\ last.emitted[n].uri = filePathToUri(last.input.openFiles[i])

\* C7, as the code has it: when the timer fires, the files of its openFiles
\* that have a ScriptInfo and a language service at that moment get one
\* textDocument/publishDiagnostics notification each, in the order of
\* openFiles, with as many diagnostics as the engine reports -- none
\* included; the other files get no notification.
ServedFilesGetDiagnostics ==
    last.op = "diagnosticsTimeout" =>
        /\ Len(last.emitted) = ServedUpTo(Len(last.input.openFiles))
        /\ \A i \in 1..Len(last.input.openFiles) :
              ServedInPass(i) =>
                  /\ last.emitted[ServedUpTo(i)].method = "textDocument/publishDiagnostics"
                  /\ last.emitted[ServedUpTo(i)].uri = filePathToUri(last.input.openFiles[i])
                  /\ Len(last.emitted[ServedUpTo(i)].diagnostics) = Len(last.input.answers[i])

\* A pass over two files: the first has lost its language service and gets
\* nothing, the second has no diagnostics and gets the empty list.
EmptyListSentAndFileSkipped ==
    /\ last.op = "diagnosticsTimeout"
    /\ last.input.openFiles = <<"b.ts", "a.ts">>
    /\ last.input.answers[2] = <<>>
    /\ last.emitted = <<[method |-> "textDocument/publishDiagnostics",
                         uri |-> filePathToUri("a.ts"), diagnostics |-> <<>>]>>
(***************************************************************************)
(* Properties of the gatekeeper and of the requests.                       *)
(***************************************************************************)
\* C8: when the gatekeeper check has run to its end on a project whose
\* language service was enabled, the language service is disabled if and
\* only if mod.ts is not found in the project; on a project that holds
\* mod.ts disableLanguageService is not called.
GatekeeperDecision ==
    [][\A p \in Projects :
          (/\ last'.op = "ProjectLoadingFinish"
           /\ last'.file = p
           /\ last'.input = NoError
           /\ languageServiceEnabled[p]) =>
              /\ ~languageServiceEnabled'[p] <=> DENO_MOD \notin projectFiles[p]
              /\ DENO_MOD \in projectFiles[p] =>
                    "disableLanguageService" \notin Range(last'.calls)]_vars

\* The check has just disabled the project without mod.ts, and the project
\* with mod.ts, checked before, is still enabled.
ProjectWithoutMarkerDisabled ==
    /\ last.op = "ProjectLoadingFinish"
    /\ last.file = "p2"
    /\ last.calls = <<"isDenoProject", "disableLanguageService">>
    /\ ~languageServiceEnabled["p2"]
    /\ languageServiceEnabled["p1"]
    /\ nFinish = 2

ProjectDisabled(f) ==
    /\ DefaultProject(f) # NoProject
    /\ ~languageServiceEnabled[DefaultProject(f)]

\* C9: once a project's language service is disabled, a definition or
\* completion request for a file of the project returns no result, asks the
\* engine nothing and raises no error, and a diagnostics pass sends no
\* notification for a file of the project.
DisabledProjectServesNothing ==
    /\ (last.op \in {"onDefinition", "onCompletion"} /\ ProjectDisabled(last.file)) =>
          /\ last.result = NoResult
          /\ last.calls = <<>>
          /\ last.raised = NoError
    /\ last.op = "sendPendingDiagnostics" =>
          /\ last.raised = NoError
          /\ \A n \in 1..Len(last.emitted) : ~ProjectDisabled(last.emitted[n].uri.path)

\* A completion request for an open file of the project the gatekeeper has
\* disabled, for which the engine would have had two entries.
CompletionOnDisabledProject ==
    /\ last.op = "onCompletion"
    /\ last.file = "b.ts"
    /\ "b.ts" \in scriptInfos
    /\ ~languageServiceEnabled["p2"]
    /\ last.input.defined
    /\ Len(last.input.entries) = 2

KeptDefinition(i) ==
    \/ last.input.definitions.items[i].fileName \in scriptInfos
    \/ last.input.definitions.items[i].textSpan.length = 0
KeptUpTo(i) == Cardinality({j \in 1..i : KeptDefinition(j)})
ZeroRange == [start |-> [line |-> 0, character |-> 0], end |-> [line |-> 0, character |-> 0]]

\* C10: the links onDefinition returns are one for each defining location of
\* the engine's answer, in the engine's order, but for the locations whose
\* file has no ScriptInfo and whose span is longer than zero, which get
\* none; the link of a location without ScriptInfo has the target range
\* (0,0)-(0,0); every link has the range of the answer's span as origin.
DefinitionFiltering ==
    (/\ last.op = "onDefinition"
     /\ last.calls # <<>>
     /\ last.input.defined
     /\ last.input.definitions.defined) =>
        LET ds == last.input.definitions.items
            links == last.result.items
        IN  /\ last.result.defined
            /\ Len(links) = KeptUpTo(Len(ds))
            /\ \A i \in 1..Len(ds) :
                  KeptDefinition(i) =>
                      /\ links[KeptUpTo(i)].targetUri = filePathToUri(ds[i].fileName)
                      /\ ds[i].fileName \notin scriptInfos =>
                            links[KeptUpTo(i)].targetRange = ZeroRange
                      /\ ds[i].fileName \in scriptInfos =>
                            links[KeptUpTo(i)].targetRange
                                = tsTextSpanToLspRange(ds[i].fileName, ds[i].textSpan)
                      /\ links[KeptUpTo(i)].targetSelectionRange
                            = links[KeptUpTo(i)].targetRange
            /\ \A k \in 1..Len(links) :
                  links[k].originSelectionRange
                      = tsTextSpanToLspRange(last.file, last.input.textSpan)

\* Of two defining locations without ScriptInfo the one with a span longer
\* than zero was left out and the other got the range (0,0)-(0,0).
DefinitionOmittedAndPinned ==
    /\ last.op = "onDefinition"
    /\ last.input.defined
    /\ last.input.definitions.defined
    /\ Len(last.input.definitions.items) = 2
    /\ last.input.definitions.items[1].textSpan.length > 0
    /\ last.input.definitions.items[2].textSpan.length = 0
    /\ last.result.defined
    /\ Len(last.result.items) = 1
    /\ last.result.items[1].targetRange = ZeroRange
\* C11: for a file with a ScriptInfo and a language service, the list
\* onCompletion returns is as long as the list of entries the engine
\* answered, and its i-th item is the conversion of the engine's i-th entry.
CompletionKeepsOrder ==
    (/\ last.op = "onCompletion"
     /\ last.calls = <<"getCompletionsAtPosition">>
     /\ last.input.defined) =>
        /\ last.result.defined
        /\ Len(last.result.items) = Len(last.input.entries)
        /\ \A i \in 1..Len(last.input.entries) :
              \E position \in Positions :
                  last.result.items[i]
                      = tsCompletionEntryToLspCompletionItem(last.input.entries[i],
                                                             position, last.file)

\* The engine answered two entries, the one with the later sortText first,
\* and both came back in the engine's order.
CompletionInEngineOrder ==
    /\ last.op = "onCompletion"
    /\ last.input.defined
    /\ Len(last.input.entries) = 2
    /\ last.input.entries[1].sortText = "1"
    /\ last.input.entries[2].sortText = "0"
    /\ last.result.defined
    /\ Len(last.result.items) = 2
    /\ last.result.items[1].label = "Deno"
    /\ last.result.items[2].label = "log"

\* C12, as the specification states it: a save request for a file with a
\* ScriptInfo that carries a text -- the empty text included -- replaces the
\* ScriptInfo's content by that text and does not reload the file; only a
\* request without text reloads the file from storage.
SaveUsesEveryProvidedText ==
    (last.op = "onDidSaveTextDocument" /\ getScriptInfo(scriptInfos, last.file)) =>
        /\ last.input # NoText => last.calls = <<"scriptInfo.open">>
        /\ last.input = NoText => last.calls = <<"scriptInfo.reloadFromFile">>

\* A save request that carried the empty text made the ScriptInfo reload
\* the file from storage.
EmptyTextReloadsFromFile ==
    /\ last.op = "onDidSaveTextDocument"
    /\ getScriptInfo(scriptInfos, last.file)
    /\ last.input = ""
    /\ last.calls = <<"scriptInfo.reloadFromFile">>
\* A check that ran to its end leaves the project enabled if and only if
\* the project holds mod.ts (C8); the files of a project do not change.
AsACheckLeavesIt(p) == languageServiceEnabled[p] <=> DENO_MOD \in projectFiles[p]

\* C13: a gatekeeper check that runs to its end on a project an earlier
\* check has settled leaves languageServiceEnabled as it found it and does
\* not call disableLanguageService, so over the two checks the call is made
\* at most once.
GatekeeperIdempotent ==
    [][\A p \in Projects :
          (/\ last'.op = "ProjectLoadingFinish"
           /\ last'.file = p
           /\ last'.input = NoError
           /\ AsACheckLeavesIt(p)) =>
              /\ languageServiceEnabled'[p] = languageServiceEnabled[p]
              /\ "disableLanguageService" \notin Range(last'.calls)]_vars

\* The project without mod.ts, disabled by an earlier check, was checked
\* again at the end of a later load: no engine call was made and it is
\* still disabled.
SecondCheckChangedNothing ==
    /\ last.op = "ProjectLoadingFinish"
    /\ last.file = "p2"
    /\ last.calls = <<>>
    /\ last.emitted = <<FinishNotification>>
    /\ ~languageServiceEnabled["p2"]
    /\ nStart = 2

\* C15: a language service that is disabled stays disabled through every
\* step of the bridge, and the gatekeeper check of a project already
\* disabled makes no engine call, disableLanguageService included, and
\* returns.
NeverReenabled ==
    [][\A p \in Projects :
          ~languageServiceEnabled[p] =>
              /\ ~languageServiceEnabled'[p]
              /\ (last'.op = "ProjectLoadingFinish" /\ last'.file = p) =>
                    /\ last'.calls = <<>>
                    /\ last'.raised = NoError]_vars

\* A file of the disabled project was opened and then the project was
\* checked again: it is still disabled.
DisabledProjectCheckedAgain ==
    /\ last.op = "ProjectLoadingFinish"
    /\ last.file = "p2"
    /\ last.calls = <<>>
    /\ ~languageServiceEnabled["p2"]
    /\ "b.ts" \in scriptInfos
    /\ nStart = 0
\* C16: a ProjectsUpdatedInBackground event, whether a load is in progress
\* or not, leaves the loading flag, the projects and the open files as they
\* are and sends no notification; what it changes is the diagnostics timer:
\* afterwards the one timer held is the pending one, it is due after the
\* full delay and it carries the openFiles of the event.
BackgroundUpdateOnlySchedules ==
    [][last'.op = "ProjectsUpdatedInBackground" =>
          /\ isProjectLoading' = isProjectLoading
          /\ UNCHANGED <<nStart, nFinish, lastLoading, cycles>>
          /\ UNCHANGED <<languageServiceEnabled, scriptInfos, pc, opening>>
          /\ last'.emitted = <<>>
          /\ last'.calls = <<>>
          /\ last'.raised = NoError
          /\ requested'.defined
          /\ diagnosticsTimeout' # NoTimer
          /\ timerQueue' = {[id |-> diagnosticsTimeout',
                             openFiles |-> requested'.items,
                             remaining |-> delay]}]_vars

\* The event came while a load was in progress and a timer was pending: the
\* load is still in progress and the timer was replaced by one for the
\* event's two files.
BackgroundUpdateWhileLoading ==
    /\ last.op = "ProjectsUpdatedInBackground"
    /\ isProjectLoading
    /\ nStart = 1
    /\ nFinish = 0
    /\ diagnosticsTimeout = 2
    /\ requested = Result(<<"a.ts", "b.ts">>)
    /\ timerQueue = {[id |-> 2, openFiles |-> <<"a.ts", "b.ts">>, remaining |-> delay]}
(***************************************************************************)
(* Properties of the scheduler under SpecDiagnostics.                      *)
(***************************************************************************)
\* The timer id is the pending one and its callback has not run.
Waiting(id) == diagnosticsTimeout = id
\* The callback of timer id has just run.
Fired(id) == last.op = "diagnosticsTimeout" /\ last.input.timer = id
Superseded(id) == diagnosticsTimeout \notin {NoTimer, id}

\* C17: the step in which a timer fires leaves no timer recorded as pending
\* and none held by Node; a triggerDiagnostics that comes next cancels
\* nothing and sets a fresh timer of the full delay for its own openFiles;
\* and a pending timer fires later unless another trigger replaces it.
FireClearsPendingTimer ==
    /\ [][last'.op = "diagnosticsTimeout" =>
              /\ diagnosticsTimeout # NoTimer
              /\ diagnosticsTimeout' = NoTimer
              /\ timerQueue' = {}
              /\ ~requested'.defined]_vars
    /\ [][(last.op = "diagnosticsTimeout" /\ last'.op = "ProjectsUpdatedInBackground") =>
              /\ diagnosticsTimeout' # NoTimer
              /\ cancelled' = {}
              /\ timerQueue' = {[id |-> diagnosticsTimeout',
                                 openFiles |-> requested'.items,
                                 remaining |-> delay]}]_vars
    /\ \A id \in 1..2 : Waiting(id) ~> (Fired(id) \/ Superseded(id))

\* The timer set for two open files has fired: both files got their
\* notification in that step, and no timer is pending or held.
PassRanWithNoTimerPending ==
    /\ last.op = "diagnosticsTimeout"
    /\ last.input.openFiles = <<"b.ts", "a.ts">>
    /\ Len(last.emitted) = 2
    /\ diagnosticsTimeout = NoTimer
    /\ timerQueue = {}

(***************************************************************************)
(* Properties of the diagnostics pass under SpecRequests.                  *)
(***************************************************************************)
\* The file has a ScriptInfo and a language service now.
Available(f) ==
    /\ f \in scriptInfos
    /\ languageServiceEnabled[DefaultProject(f)]
\* The files of the last pass that were available, in the order of the pass.
AvailableInPass == SelectSeq(last.input.openFiles, Available)

\* C18: a diagnostics pass raises no error; a file of the pass without
\* ScriptInfo or without language service gets no notification, and the
\* other files, those after it included, get one publishDiagnostics
\* notification each, in the order of the pass.
UnavailableFilesSkipped ==
    last.op = "sendPendingDiagnostics" =>
        /\ last.raised = NoError
        /\ Len(last.emitted) = Len(AvailableInPass)
        /\ \A n \in 1..Len(last.emitted) :
              /\ last.emitted[n].method = "textDocument/publishDiagnostics"
              /\ last.emitted[n].uri = filePathToUri(AvailableInPass[n])
        /\ \A i \in 1..Len(last.input.openFiles) :
              ~Available(last.input.openFiles[i]) =>
                  \A n \in 1..Len(last.emitted) :
                      last.emitted[n].uri # filePathToUri(last.input.openFiles[i])

\* A pass over a.ts and b.ts with a.ts closed: nothing for a.ts, and b.ts
\* after it got its notification.
ClosedFileSkippedNextServed ==
    /\ last.op = "sendPendingDiagnostics"
    /\ last.input.openFiles = <<"a.ts", "b.ts">>
    /\ "a.ts" \notin scriptInfos
    /\ last.raised = NoError
    /\ Len(last.emitted) = 1
    /\ last.emitted[1].uri = filePathToUri("b.ts")
(***************************************************************************)
(* Properties of the steps that publish, under Spec.                       *)
(***************************************************************************)
Publishes(step) ==
    \E n \in 1..Len(step.emitted) :
        step.emitted[n].method = "textDocument/publishDiagnostics"

\* C19: a step that sends a publishDiagnostics notification is the callback
\* of the timer the last triggerDiagnostics set, run when the full delay has
\* passed since that call, over the openFiles of that call; so a step that
\* calls triggerDiagnostics publishes nothing, and nothing is published
\* while the timer waits.
PublishOnlyWhenTimerFires ==
    [][Publishes(last') =>
          /\ last'.op = "diagnosticsTimeout"
          /\ diagnosticsTimeout # NoTimer
          /\ last'.input.timer = diagnosticsTimeout
          /\ last'.input.openFiles = requested.items
          /\ elapsed = delay
          /\ diagnosticsTimeout' = NoTimer]_vars

\* A timer set while another was pending has fired, the full delay after
\* it was set, and both files of its batch were published in that one step.
BatchPublishedInOneStep ==
    /\ last.op = "diagnosticsTimeout"
    /\ last.input.timer = 2
    /\ last.input.openFiles = <<"a.ts", "b.ts">>
    /\ Len(last.emitted) = 2
    /\ Publishes(last)
    /\ elapsed = delay
(***************************************************************************)
(* Properties of the end of onDidOpenTextDocument.                         *)
(***************************************************************************)
CallsOf(step, call) == Cardinality({i \in 1..Len(step.calls) : step.calls[i] = call})
\* openClientFile answered a configuration file, findProject finds its
\* project and the project's language service is enabled.
Eligible(answer) ==
    /\ answer.configFileName # NoProject
    /\ answer.found
    /\ languageServiceEnabled[answer.configFileName]

\* C20: when openClientFile has returned and nothing throws, the handler
\* calls refreshDiagnostics once if a configuration file was resolved, its
\* project is found and the project's language service is enabled, whether
\* the configuration file has errors or not, and then a diagnostics timer
\* is pending; in every other case it makes no such call and leaves the
\* timers alone; in all cases it returns without an error.
OpenRefreshesWhenEligible ==
    [][(last'.op = "onDidOpenTextDocument" /\ pc = "opening") =>
          \A answer \in OpenAnswers, openFiles \in OpenFilesLists :
              (answer.fault = NoFault /\ OpenClientFileReturns(answer, openFiles)) =>
                  /\ last'.raised = NoError
                  /\ CallsOf(last', "refreshDiagnostics") = IF Eligible(answer) THEN 1 ELSE 0
                  /\ Eligible(answer) =>
                        /\ diagnosticsTimeout' # NoTimer
                        /\ requested' = Result(openFiles)
                  /\ ~Eligible(answer) => UNCHANGED timerVars]_vars

\* a.ts was opened, its project was found enabled and the refresh was
\* requested once: the timer for the open files, a.ts among them, waits.
OpenRequestedRefresh ==
    /\ last.op = "onDidOpenTextDocument"
    /\ last.file = "a.ts"
    /\ last.calls = <<"findProject", "refreshDiagnostics">>
    /\ last.raised = NoError
    /\ diagnosticsTimeout # NoTimer
    /\ requested.defined
    /\ "a.ts" \in Range(requested.items)
(***************************************************************************)
(* The first diagnostics of an opened file, under SpecDiagnostics.         *)
(***************************************************************************)
\* onDidOpenTextDocument of f has just returned after its call of
\* refreshDiagnostics, and the project of f is one the gatekeeper leaves
\* enabled.
RefreshRequested(f) ==
    /\ last.op = "onDidOpenTextDocument"
    /\ last.file = f
    /\ last.raised = NoError
    /\ CallsOf(last, "refreshDiagnostics") = 1
    /\ DENO_MOD \in projectFiles[DefaultProject(f)]
    /\ languageServiceEnabled[DefaultProject(f)]
\* The pass just made sent a notification for f.
PublishedFor(f) ==
    /\ last.op = "diagnosticsTimeout"
    /\ \E n \in 1..Len(last.emitted) :
          /\ last.emitted[n].method = "textDocument/publishDiagnostics"
          /\ last.emitted[n].uri = filePathToUri(f)

\* C14, as the specification states it: after onDidOpenTextDocument has
\* requested the refresh for a file of an enabled project, a
\* publishDiagnostics notification for the file is eventually sent unless a
\* later trigger replaces the timer.
InitialDiagnosticsAlwaysCome ==
    \A f \in Files, id \in 1..2 :
        (RefreshRequested(f) /\ Waiting(id)) ~> (PublishedFor(f) \/ Superseded(id))

\* C14, as the code has it: the refresh onDidOpenTextDocument requests sets
\* the diagnostics timer, of the full delay, for open files that include
\* the file opened; and a publishDiagnostics notification for the file is
\* eventually sent unless a later trigger replaces the timer or the file is
\* closed before the timer fires.
InitialDiagnosticsUnlessClosed ==
    /\ [][\A f \in Files :
              RefreshRequested(f)' =>
                  /\ diagnosticsTimeout' # NoTimer
                  /\ \E t \in timerQueue' :
                        /\ t.id = diagnosticsTimeout'
                        /\ t.remaining = delay
                        /\ f \in Range(t.openFiles)]_vars
    /\ \A f \in Files, id \in 1..2 :
          (RefreshRequested(f) /\ Waiting(id))
              ~> (PublishedFor(f) \/ Superseded(id) \/ f \notin scriptInfos)

\* a.ts alone is open and the pass of the timer sent its notification, with
\* no diagnostics in it.
InitialDiagnosticsPublished ==
    /\ PublishedFor("a.ts")
    /\ last.input.openFiles = <<"a.ts">>
    /\ last.emitted = <<[method |-> "textDocument/publishDiagnostics",
                         uri |-> filePathToUri("a.ts"), diagnostics |-> <<>>]>>
    /\ scriptInfos = {"a.ts"}
(***************************************************************************)
(* Properties of all the handlers together, under SpecHandlers.            *)
(***************************************************************************)
\* The step was a request for a file the engine holds no state for: a
\* save, definition or completion request for a file without ScriptInfo, or
\* a definition or completion request for a file without language service.
OnMissingState(step) ==
    \/ /\ step.op \in {"onDidSaveTextDocument", "onDefinition", "onCompletion"}
       /\ ~getScriptInfo(scriptInfos, step.file)
    \/ /\ step.op \in {"onDefinition", "onCompletion"}
       /\ ~getDefaultLanguageService(languageServiceEnabled, step.file)

\* C21: a save, definition or completion request for a file without
\* ScriptInfo, and a definition or completion request for a file without
\* language service, returns no result, raises no error, makes no call to
\* the engine, sends nothing, and leaves the loading flag, the pending
\* timer, the projects and the open files as they are.
MissingStateIsNoOp ==
    [][OnMissingState(last') =>
          /\ last'.result = NoResult
          /\ last'.raised = NoError
          /\ last'.calls = <<>>
          /\ last'.emitted = <<>>
          /\ UNCHANGED <<loadVars, timerVars, languageServiceEnabled, scriptInfos>>]_vars

\* A definition request for b.ts, whose project is disabled, came while a
\* load was in progress and a timer was pending; the engine had an answer,
\* nothing was asked and nothing returned, and the load and the timer are
\* as before.
DefinitionWithoutServiceDidNothing ==
    /\ last.op = "onDefinition"
    /\ last.file = "b.ts"
    /\ "b.ts" \in scriptInfos
    /\ ~languageServiceEnabled["p2"]
    /\ last.input.defined
    /\ last.result = NoResult
    /\ last.calls = <<>>
    /\ isProjectLoading
    /\ diagnosticsTimeout # NoTimer
(***************************************************************************)
(* The two paths that send projectLoading/finish, under Spec.              *)
(***************************************************************************)
\* C22: no step sends two projectLoading/finish notifications, and a step
\* that sends one finds the flag true, resets it, and follows a
\* projectLoading/start with no finish after it; so between two
\* ProjectLoadingStart events at most one finish is sent, whichever of the
\* two paths sends it.  A ProjectLoadingFinish event that comes when the
\* flag is already false makes the gatekeeper's check and sends nothing.
NoDoubleFinish ==
    [][/\ FinishesIn(last') <= 1
       /\ FinishesIn(last') = 1 =>
             /\ isProjectLoading
             /\ ~isProjectLoading'
             /\ lastLoading = "projectLoading/start"
             /\ lastLoading' = "projectLoading/finish"
       /\ (last'.op = "ProjectLoadingFinish" /\ ~isProjectLoading) =>
             /\ last'.emitted = <<>>
             /\ \E fault \in GateFaults :
                   last'.calls = checkIsDenoProject(languageServiceEnabled[last'.file],
                                                    projectFiles[last'.file], fault).calls]_vars

\* The finish of the one load was already sent when a ProjectLoadingFinish
\* event came: the gatekeeper checked the project and disabled it, and no
\* second finish was sent.
LateFinishEventSentNothing ==
    /\ last.op = "ProjectLoadingFinish"
    /\ last.file = "p2"
    /\ last.calls = <<"isDenoProject", "disableLanguageService">>
    /\ last.emitted = <<>>
    /\ lastLoading = "projectLoading/finish"
    /\ nStart = 1
    /\ nFinish = 1
(***************************************************************************)
(* The loading flag and the notifications sent, under Spec.                *)
(***************************************************************************)
\* C23: between the steps of the handlers the flag is true exactly when the
\* loading notification sent last is projectLoading/start -- it is false
\* when none was sent --, and a step that changes the flag sends the
\* notification of the new value, as the last loading notification of the
\* step.
FlagMirrorsNotifications ==
    /\ [](isProjectLoading <=> lastLoading = "projectLoading/start")
    /\ [][isProjectLoading' # isProjectLoading =>
              /\ LoadingNotes(last'.emitted) # <<>>
              /\ Last(LoadingNotes(last'.emitted)) =
                     IF isProjectLoading' THEN StartNotification ELSE FinishNotification]_vars

\* Two starts were sent, and then the catch block of onDidOpenTextDocument
\* sent the finish: the flag is false and the finish is the notification
\* sent last.
FlagFalseAfterCatchSentFinish ==
    /\ last.op = "onDidOpenTextDocument"
    /\ last.raised # NoError
    /\ last.emitted = <<FinishNotification>>
    /\ ~isProjectLoading
    /\ lastLoading = "projectLoading/finish"
    /\ nStart = 2
    /\ nFinish = 1
(***************************************************************************)
(* Who changes the diagnostics timer, under SpecHandlers.                  *)
(***************************************************************************)
\* The step called triggerDiagnostics: a ProjectsUpdatedInBackground event,
\* or the one refreshDiagnostics delivers inside onDidOpenTextDocument.
Triggers(step) ==
    \/ step.op = "ProjectsUpdatedInBackground"
    \/ step.op = "onDidOpenTextDocument" /\ CallsOf(step, "refreshDiagnostics") = 1
\* What is scheduled: the pending timer, the timers Node holds and the
\* files of each, whatever time they have left.
Scheduled ==
    <<diagnosticsTimeout, {[id |-> t.id, openFiles |-> t.openFiles] : t \in timerQueue}>>

\* C24: what is scheduled changes only in a step that calls
\* triggerDiagnostics and in the step in which the timer fires: a timer
\* leaves Node's queue only by firing or by the clearTimeout of a trigger,
\* and the other handlers -- close, save, definition, completion, the loading
\* events, and onDidOpenTextDocument when it does not reach
\* refreshDiagnostics, its failure path included -- leave the timer, its time
\* included, as it is; and a pending timer fires in the end unless a later
\* trigger replaces it, so the pass runs after the last trigger of a burst.
OnlyTriggerCancels ==
    /\ [][Scheduled' # Scheduled => (Triggers(last') \/ last'.op = "diagnosticsTimeout")]_vars
    /\ [][(last'.op \notin {"tick", "diagnosticsTimeout"} /\ ~Triggers(last')) =>
              UNCHANGED timerVars]_vars
    /\ [][\A t \in timerQueue :
              t.id \notin TimerIds(timerQueue') =>
                  \/ last'.op = "diagnosticsTimeout" /\ last'.input.timer = t.id
                  \/ Triggers(last') /\ t.id = diagnosticsTimeout]_vars
    /\ \A id \in 1..2 :
          Waiting(id) ~> (Fired(id) \/ (Superseded(id) /\ Triggers(last)))

\* b.ts was closed while the timer set for it had 100 ms left: the timer is
\* still pending with its file and its time.
TimerSurvivedClose ==
    /\ last.op = "onDidCloseTextDocument"
    /\ last.file = "b.ts"
    /\ diagnosticsTimeout = 1
    /\ timerQueue = {[id |-> 1, openFiles |-> <<"b.ts">>, remaining |-> delay \div 2]}
(***************************************************************************)
(* The status bar of the editor extension, under SpecExtension.            *)
(***************************************************************************)
\* The step ran updateStatusBarVisibility and took the branch of Status.ok.
TookStatusOk(step) ==
    /\ "updateStatusBarVisibility" \in Range(step.calls)
    /\ step.input.denoStatus = "ok"

\* C25, as the specification states it: every run of
\* updateStatusBarVisibility that takes the branch of Status.ok finds
\* versions determined and defined, and leaves without an error.
StatusOkFindsVersions ==
    TookStatusOk(last) =>
        /\ last.input.versions.initialized
        /\ last.input.versions.defined
        /\ last.raised = NoError

\* The settings of the "deno" section changed while activate() was awaiting
\* getVersions(): the listener ran updateStatusBarVisibility with the status
\* ok and versions not yet declared, the read of versions.deno threw, and
\* the status bar item is as activate() created it.
ConfigurationChangedWhileDetecting ==
    /\ last.op = "onDidChangeConfiguration"
    /\ TookStatusOk(last)
    /\ activation = "awaiting getVersions"
    /\ ~last.input.versions.initialized
    /\ last.raised \in UninitializedReadErrors
    /\ statusBarItem.text = <<"Deno">>
====
